---- MODULE Spec2Model ----
(***************************************************************************)
(* pecyn: a versioned two-byte envelope (version, flags) around a msgpack  *)
(* document, optionally gzip-compressed, optionally Base64 text.           *)
(*                                                                         *)
(* Bytes are integers 0..255, byte strings are sequences of bytes, and a   *)
(* Python str is a sequence of code points.  The three library codecs the  *)
(* package calls (msgpack, gzip, binascii) are modelled by what they do on *)
(* the wire, on the fragment of their formats the inputs below can reach.  *)
(***************************************************************************)
EXTENDS Integers, Sequences, FiniteSets, TLC

\* ------------------------------------------------------------------ bounds
MaxArrayLen == 2     \* longest list among the documents packed
MaxClock    == 2     \* the clock runs over 0..MaxClock seconds
MaxGarbage  == 2     \* longest arbitrary payload fed to unpackb
MaxInsert   == 3     \* text positions 0..MaxInsert get a stray character

\* ------------------------------------------------------- format constants
_PACK_VERSION == 0
_FLAG_MSGPACK == 1
_FLAG_GZIP == 16
_HEADER_BLOCK_SIZE == 2
_GZIP_COMPRESSION_LEVEL == 3

\* --------------------------------------------------------- Python helpers
RECURSIVE BitAnd(_, _)
\* Python's a & b on non-negative integers
BitAnd(a, b) ==
    IF a = 0 \/ b = 0 THEN 0
    ELSE (a % 2) * (b % 2) + 2 * BitAnd(a \div 2, b \div 2)

RECURSIVE BitOr(_, _)
\* Python's a | b on non-negative integers
BitOr(a, b) ==
    IF a = 0 THEN b
    ELSE IF b = 0 THEN a
    ELSE (IF a % 2 = 1 \/ b % 2 = 1 THEN 1 ELSE 0) + 2 * BitOr(a \div 2, b \div 2)

\* bool(compress) for the values a caller passes: None, False, True
Truthy(c) == c = "True"

\* b[i:] for 0-based i (an empty result when i >= len(b))
SliceFrom(b, i) == SubSeq(b, i + 1, Len(b))

\* b[:i]
SliceTo(b, i) == SubSeq(b, 1, IF i < Len(b) THEN i ELSE Len(b))

\* ------------------------------------------------------------- documents
\* A document is a record [t, n, items]: t the Python type, n the value of
\* an int or bool, items the elements of a list.
PyNone        == [t |-> "nil",    n |-> 0, items |-> <<>>]
PyBool(b)    == [t |-> "bool",   n |-> IF b THEN 1 ELSE 0, items |-> <<>>]
PyInt(k)     == [t |-> "int",    n |-> k, items |-> <<>>]
PyList(s)    == [t |-> "list",   n |-> 0, items |-> s]
PyEmptyDict  == [t |-> "dict",   n |-> 0, items |-> <<>>]
\* a value msgpack cannot serialize (a set, an arbitrary object)
PyObject   == [t |-> "object", n |-> 0, items |-> <<>>]

\* ---------------------------------------------------------------- msgpack
Packed(b)   == [ok |-> TRUE,  bytes |-> b,    exc |-> ""]
PackError   == [ok |-> FALSE, bytes |-> <<>>, exc |-> "TypeError"]

RECURSIVE msgpack_packb(_)
RECURSIVE PackItems(_)
\* the encodings of a list's elements, concatenated
PackItems(s) ==
    IF s = <<>> THEN Packed(<<>>)
    ELSE LET h == msgpack_packb(Head(s))
             r == PackItems(Tail(s))
         IN  IF h.ok /\ r.ok THEN Packed(h.bytes \o r.bytes) ELSE PackError

\* msgpack.packb(doc, use_bin_type=True): nil c0, false c2, true c3,
\* positive fixint 00..7f, negative fixint e0..ff, uint8 cc, int8 d0,
\* fixarray 90..9f, fixmap 80
msgpack_packb(d) ==
    CASE d.t = "nil"  -> Packed(<<192>>)
      [] d.t = "bool" -> Packed(<<194 + d.n>>)
      [] d.t = "int" /\ d.n >= 0 /\ d.n < 128    -> Packed(<<d.n>>)
      [] d.t = "int" /\ d.n >= -32 /\ d.n < 0    -> Packed(<<256 + d.n>>)
      [] d.t = "int" /\ d.n >= 128 /\ d.n < 256  -> Packed(<<204, d.n>>)
      [] d.t = "int" /\ d.n >= -128 /\ d.n < -32 -> Packed(<<208, 256 + d.n>>)
      [] d.t = "list" /\ Len(d.items) < 16 ->
            LET r == PackItems(d.items)
            IN  IF r.ok THEN Packed(<<144 + Len(d.items)>> \o r.bytes) ELSE PackError
      [] d.t = "dict" /\ d.items = <<>> -> Packed(<<128>>)
      [] OTHER -> PackError

Parsed(d, rest) == [ok |-> TRUE,  doc |-> d,   rest |-> rest, exc |-> ""]
ParseError(e)   == [ok |-> FALSE, doc |-> PyNone, rest |-> <<>>, exc |-> e]

RECURSIVE ParseObject(_)
RECURSIVE ParseItems(_, _)
\* n consecutive objects at the front of b, as a list of documents
ParseItems(b, n) ==
    IF n = 0 THEN Parsed(PyList(<<>>), b)
    ELSE LET h == ParseObject(b)
         IN  IF ~h.ok THEN h
             ELSE LET r == ParseItems(h.rest, n - 1)
                  IN  IF ~r.ok THEN r
                      ELSE Parsed(PyList(<<h.doc>> \o r.doc.items), r.rest)

\* one msgpack object at the front of b.  c1 is the format's one unused
\* tag; the tags of str, bin, float, ext, the wider ints and non-empty maps
\* belong to documents outside this model and no input below carries them.
ParseObject(b) ==
    IF b = <<>> THEN ParseError("ValueError: incomplete input")
    ELSE LET h == Head(b)
             t == Tail(b)
         IN  CASE h < 128 -> Parsed(PyInt(h), t)
               [] h = 128 -> Parsed(PyEmptyDict, t)
               [] h >= 144 /\ h < 160 -> ParseItems(t, h - 144)
               [] h = 192 -> Parsed(PyNone, t)
               [] h = 194 -> Parsed(PyBool(FALSE), t)
               [] h = 195 -> Parsed(PyBool(TRUE), t)
               [] h = 204 -> IF t = <<>> THEN ParseError("ValueError: incomplete input")
                             ELSE Parsed(PyInt(Head(t)), Tail(t))
               [] h = 208 -> IF t = <<>> THEN ParseError("ValueError: incomplete input")
                             ELSE Parsed(PyInt(IF Head(t) < 128 THEN Head(t)
                                             ELSE Head(t) - 256), Tail(t))
               [] h >= 224 -> Parsed(PyInt(h - 256), t)
               [] OTHER -> ParseError("msgpack.FormatError")

\* msgpack.unpackb(blob, raw=False): exactly one object, nothing after it
msgpack_unpackb(blob) ==
    LET p == ParseObject(blob)
    IN  IF ~p.ok THEN p
        ELSE IF p.rest # <<>> THEN ParseError("msgpack.ExtraData")
        ELSE p

\* ------------------------------------------------------------------- gzip
\* a 32-bit value as four little-endian bytes (struct '<I')
LE32(x) == <<x % 256, (x \div 256) % 256, (x \div 65536) % 256, (x \div 16777216) % 256>>

RECURSIVE SumBytes(_)
SumBytes(b) == IF b = <<>> THEN 0 ELSE Head(b) + SumBytes(Tail(b))

\* zlib.crc32, abstracted to an additive checksum of the data (below 2^32
\* for every byte string of the model, so the 32-bit wrap never applies)
Checksum(b) == SumBytes(b)

\* the raw deflate stream of data, abstracted to one final stored block:
\* BFINAL/BTYPE byte 01, LEN, NLEN = ~LEN, then the bytes
Deflate(b) ==
    LET n == Len(b)
    IN  <<1, n % 256, n \div 256, 255 - (n % 256), 255 - (n \div 256)>> \o b

\* gzip.compress(data, compresslevel) with mtime left at its default None:
\* a ten-byte member header ID1 ID2 CM FLG MTIME(4) XFL OS whose MTIME is
\* the clock at the time of the call, the deflate stream, CRC32 and ISIZE
gzip_compress(data, level, clock) ==
    <<31, 139, 8, 0>> \o LE32(clock)
        \o <<IF level = 9 THEN 2 ELSE IF level = 1 THEN 4 ELSE 0, 255>>
        \o Deflate(data) \o LE32(Checksum(data)) \o LE32(Len(data))

Inflated(b)  == [ok |-> TRUE,  data |-> b,    exc |-> ""]
GzipError(e) == [ok |-> FALSE, data |-> <<>>, exc |-> e]

RECURSIVE LStripZeros(_)
\* bytes.lstrip(b"\x00")
LStripZeros(b) == IF b # <<>> /\ Head(b) = 0 THEN LStripZeros(Tail(b)) ELSE b

RECURSIVE gzip_decompress(_)
\* gzip.decompress(data): the members of data one after the other, zero
\* padding between them skipped; no member at all gives b"".  Members here
\* have FLG = 0 (no optional header fields).
gzip_decompress(data) ==
    IF data = <<>> THEN Inflated(<<>>)
    ELSE IF SliceTo(data, 2) # <<31, 139>> THEN GzipError("gzip.BadGzipFile")
    ELSE IF Len(data) < 10 THEN GzipError("EOFError")
    ELSE IF data[3] # 8 THEN GzipError("gzip.BadGzipFile")
    ELSE LET body == SliceFrom(data, 10)
         IN  IF Len(body) < 5 THEN GzipError("EOFError")
             ELSE IF body[1] # 1 \/ body[4] # 255 - body[2] \/ body[5] # 255 - body[3]
                  THEN GzipError("zlib.error")
             ELSE LET n == body[2] + 256 * body[3]
                  IN  IF Len(body) < 5 + n + 8 THEN GzipError("EOFError")
                      ELSE LET raw == SubSeq(body, 6, 5 + n)
                               crc == SubSeq(body, 6 + n, 9 + n)
                               isize == SubSeq(body, 10 + n, 13 + n)
                               more == gzip_decompress(LStripZeros(SliceFrom(body, 13 + n)))
                           IN  IF crc # LE32(Checksum(raw)) THEN GzipError("gzip.BadGzipFile")
                               ELSE IF isize # LE32(Len(raw))
                                    THEN GzipError("gzip.BadGzipFile")
                               ELSE IF ~more.ok THEN more
                               ELSE Inflated(raw \o more.data)

\* ----------------------------------------------------------------- Base64
\* the character (code point) of a 6-bit value: A-Z a-z 0-9 + /
B64Char(v) ==
    IF v < 26 THEN 65 + v
    ELSE IF v < 52 THEN 97 + (v - 26)
    ELSE IF v < 62 THEN 48 + (v - 52)
    ELSE IF v = 62 THEN 43 ELSE 47

\* the 6-bit value of a character, 64 for one outside the alphabet
B64Value(c) ==
    IF c >= 65 /\ c <= 90 THEN c - 65
    ELSE IF c >= 97 /\ c <= 122 THEN c - 97 + 26
    ELSE IF c >= 48 /\ c <= 57 THEN c - 48 + 52
    ELSE IF c = 43 THEN 62
    ELSE IF c = 47 THEN 63 ELSE 64

RECURSIVE b2a_base64(_)
\* binascii.b2a_base64(data, newline=False).decode(): four characters for
\* every three bytes, the last group padded with '='
b2a_base64(data) ==
    IF data = <<>> THEN <<>>
    ELSE IF Len(data) = 1
         THEN <<B64Char(data[1] \div 4), B64Char((data[1] % 4) * 16), 61, 61>>
    ELSE IF Len(data) = 2
         THEN <<B64Char(data[1] \div 4),
                B64Char((data[1] % 4) * 16 + data[2] \div 16),
                B64Char((data[2] % 16) * 4), 61>>
    ELSE <<B64Char(data[1] \div 4),
           B64Char((data[1] % 4) * 16 + data[2] \div 16),
           B64Char((data[2] % 16) * 4 + data[3] \div 64),
           B64Char(data[3] % 64)>> \o b2a_base64(SliceFrom(data, 3))

Decoded(b)      == [ok |-> TRUE,  bytes |-> b,    exc |-> ""]
DecodeError(e)  == [ok |-> FALSE, bytes |-> <<>>, exc |-> e]

RECURSIVE A2BLoop(_, _, _, _, _)
\* the scan of binascii.a2b_base64 in its default, non-strict mode: quad_pos
\* counts the data characters of the current group, leftchar holds the bits
\* not yet written, pads the '=' seen since the last data character
A2BLoop(text, quad_pos, leftchar, pads, out) ==
    IF text = <<>>
    THEN IF quad_pos = 0 THEN Decoded(out) ELSE DecodeError("binascii.Error")
    ELSE LET c == Head(text)
             v == B64Value(c)
         IN  IF c = 61
             THEN IF quad_pos >= 2 /\ quad_pos + pads + 1 >= 4
                  THEN Decoded(out)
                  ELSE A2BLoop(Tail(text), quad_pos, leftchar,
                               IF quad_pos >= 2 THEN pads + 1 ELSE pads, out)
             ELSE IF v >= 64
             THEN A2BLoop(Tail(text), quad_pos, leftchar, pads, out)
             ELSE CASE quad_pos = 0 -> A2BLoop(Tail(text), 1, v, 0, out)
                    [] quad_pos = 1 ->
                         A2BLoop(Tail(text), 2, v % 16, 0,
                                 Append(out, leftchar * 4 + v \div 16))
                    [] quad_pos = 2 ->
                         A2BLoop(Tail(text), 3, v % 4, 0,
                                 Append(out, leftchar * 16 + v \div 4))
                    [] OTHER ->
                         A2BLoop(Tail(text), 0, 0, 0,
                                 Append(out, leftchar * 64 + v))

\* binascii.a2b_base64(record) for a str argument: a str with a non-ASCII
\* character is refused, anything else is scanned
a2b_base64(text) ==
    IF \E i \in 1..Len(text) : text[i] >= 128 THEN DecodeError("ValueError")
    ELSE A2BLoop(text, 0, 0, 0, <<>>)

\* --------------------------------------------------------------- outcomes
\* What a call did: the value it returned or the exception it raised, and
\* (for the decoders) the steps it reached, in order.
NoCall == [kind |-> "none", bytes |-> <<>>, doc |-> PyNone, exc |-> "", msg |-> "", trace |-> <<>>]
ReturnBytes(b) == [kind |-> "bytes", bytes |-> b, doc |-> PyNone, exc |-> "", msg |-> "", trace |-> <<>>]
ReturnStr(s) == [kind |-> "str", bytes |-> s, doc |-> PyNone, exc |-> "", msg |-> "", trace |-> <<>>]
ReturnDoc(d, tr) == [kind |-> "doc", bytes |-> <<>>, doc |-> d, exc |-> "", msg |-> "", trace |-> tr]
Raise(e, m, tr) == [kind |-> "raise", bytes |-> <<>>, doc |-> PyNone, exc |-> e, msg |-> m, trace |-> tr]

\* ------------------------------------------------------------------ packb
\* the two header bytes written in the wrong order
struct_pack_BB_swapped(a, b) == <<b, a>>

\* struct.pack('BB', a, b)
struct_pack_BB(a, b) == <<a, b>>

\* the GZIP bit never set
PackFlags_noGzip(compress) == _FLAG_MSGPACK

\* flags = _FLAG_MSGPACK, or'ed with _FLAG_GZIP under "if compress:"
PackFlags(compress) ==
    IF Truthy(compress) THEN BitOr(_FLAG_MSGPACK, _FLAG_GZIP) ELSE _FLAG_MSGPACK

\* blob, replaced by its compression under "if compress:"
PackBlob(blob, compress, clock) ==
    IF Truthy(compress) THEN gzip_compress(blob, _GZIP_COMPRESSION_LEVEL, clock) ELSE blob

\* packb(doc, compress) called when the clock reads `clock`
packb(doc, compress, clock) ==
    LET m == msgpack_packb(doc)
    IN  IF ~m.ok THEN Raise(m.exc, "", <<>>)
        ELSE ReturnBytes(struct_pack_BB(_PACK_VERSION, PackFlags(compress))
                         \o PackBlob(m.bytes, compress, clock))

\* pack(doc, compress): packb, then Base64 without a newline, as a str
pack(doc, compress, clock) ==
    LET r == packb(doc, compress, clock)
    IN  IF r.kind = "raise" THEN r ELSE ReturnStr(b2a_base64(r.bytes))

\* ---------------------------------------------------------------- unpackb
\* the length check off by one
HeaderTooShort_offByOne(record) == Len(record) < _HEADER_BLOCK_SIZE - 1

\* len(record) < _HEADER_BLOCK_SIZE
HeaderTooShort(record) == Len(record) < _HEADER_BLOCK_SIZE

\* struct.unpack('BB', b): struct.error unless b has exactly two bytes
struct_unpack_BB(b) ==
    IF Len(b) = 2 THEN [ok |-> TRUE, version |-> b[1], flags |-> b[2]]
    ELSE [ok |-> FALSE, version |-> 0, flags |-> 0]

\* the version check dropped
VersionMismatch_never(version) == FALSE

\* version != _PACK_VERSION
VersionMismatch(version) == version # _PACK_VERSION

\* the GZIP flag tested on the wrong bit
HasGzip_wrongBit(flags) == BitAnd(flags, 8) # 0

\* the GZIP flag tested by comparing the whole flags byte
HasGzip_exact(flags) == flags = _FLAG_MSGPACK + _FLAG_GZIP

\* (flags & _FLAG_GZIP)
HasGzip(flags) == BitAnd(flags, _FLAG_GZIP) # 0

\* the MSGPACK flag tested with | in place of &
HasMsgpack_or(flags) == BitOr(flags, _FLAG_MSGPACK) # 0

\* the flags byte matched against the two values packb writes
HasMsgpack_exact(flags) == flags \in {_FLAG_MSGPACK, _FLAG_MSGPACK + _FLAG_GZIP}

\* (flags & _FLAG_MSGPACK)
HasMsgpack(flags) == BitAnd(flags, _FLAG_MSGPACK) # 0

\* unpackb(record)
unpackb(record) ==
    IF HeaderTooShort(record)
    THEN Raise("ValueError", "Invalid header block", <<"len">>)
    ELSE
    LET h == struct_unpack_BB(SliceTo(record, _HEADER_BLOCK_SIZE))
    IN  IF ~h.ok THEN Raise("struct.error", "", <<"len", "struct.unpack">>)
        ELSE IF VersionMismatch(h.version)
        THEN Raise("ValueError", "Unsupported pack version", <<"len", "struct.unpack", "version">>)
        ELSE
        LET payload == SliceFrom(record, _HEADER_BLOCK_SIZE)
            z == IF HasGzip(h.flags) THEN gzip_decompress(payload) ELSE Inflated(payload)
            tr == <<"len", "struct.unpack", "version">>
                      \o (IF HasGzip(h.flags) THEN <<"gzip.decompress">> ELSE <<>>)
        IN  IF ~z.ok THEN Raise(z.exc, "", tr)
            ELSE IF ~HasMsgpack(h.flags)
            THEN Raise("ValueError", "Unsupported document format", tr \o <<"flags">>)
            ELSE
            LET u == msgpack_unpackb(z.data)
            IN  IF ~u.ok THEN Raise(u.exc, "", tr \o <<"flags", "msgpack.unpackb">>)
                ELSE ReturnDoc(u.doc, tr \o <<"flags", "msgpack.unpackb">>)

\* unpack(record): Base64 decoding, then unpackb
unpack(text) ==
    LET a == a2b_base64(text)
    IN  IF ~a.ok THEN Raise(a.exc, "", <<"a2b_base64">>)
        ELSE LET r == unpackb(a.bytes)
             IN  [r EXCEPT !.trace = <<"a2b_base64">> \o @]

\* ----------------------------------------------------------------- inputs
\* scalars a caller packs
Scalars == {PyNone, PyBool(FALSE), PyBool(TRUE), PyEmptyDict, PyObject,
            PyInt(0), PyInt(1), PyInt(127), PyInt(128), PyInt(255),
            PyInt(-1), PyInt(-32), PyInt(-33)}

\* elements of the lists a caller packs
Elements == {PyNone, PyInt(1), PyList(<<>>)}

RECURSIVE SeqsUpTo(_, _)
\* the sequences over S of length at most n
SeqsUpTo(S, n) ==
    IF n = 0 THEN {<<>>}
    ELSE LET shorter == SeqsUpTo(S, n - 1)
         IN  shorter \cup {Append(s, x) : s \in shorter, x \in S}

\* the doc arguments of pack and packb
Docs == Scalars \cup {PyList(s) : s \in SeqsUpTo(Elements, MaxArrayLen)}

\* the compress arguments of pack and packb: omitted (None), False, True
CompressArgs == {"None", "False", "True"}

\* first bytes of the records fed to unpackb
Versions == {0, 1, 255}

\* flag bytes of the records fed to unpackb: every combination of the two
\* defined bits and two of the reserved ones
FlagBytes == {a + b + c + d : a \in {0, _FLAG_MSGPACK}, b \in {0, 2},
                              c \in {0, _FLAG_GZIP}, d \in {0, 128}}

\* codec output for a few documents, plain and compressed
PlainBlobs == {msgpack_packb(d).bytes : d \in {PyNone, PyInt(128), PyList(<<PyInt(1)>>)}}
GzipBlobs  == {gzip_compress(b, _GZIP_COMPRESSION_LEVEL, 1) : b \in PlainBlobs}

\* compressed payloads damaged in transit: cut short anywhere, a checksum
\* byte changed, bytes added after the member, two members in a row
DamagedBlobs ==
    LET g == gzip_compress(<<192>>, _GZIP_COMPRESSION_LEVEL, 1)
    IN  {SliceTo(g, k) : k \in 0..(Len(g) - 1)}
        \cup {[g EXCEPT ![k] = (@ + 1) % 256] : k \in {1, 3, 11, 12, 16, 17, 21}}
        \cup {g \o <<0>>, g \o <<65>>, g \o g}

\* short payloads that are no codec output
Garbage == SeqsUpTo({0, 31, 145, 192, 193}, MaxGarbage)

Payloads == PlainBlobs \cup GzipBlobs \cup DamagedBlobs \cup Garbage

\* the record arguments of unpackb
Envelopes ==
    SeqsUpTo(Versions, 1)
    \cup {<<v, f>> \o p : v \in Versions, f \in FlagBytes, p \in Payloads}

\* characters that stray into a text: ! space newline - = and e-acute
Strays == {33, 32, 10, 45, 61, 233}

\* s with character c put in before position i (0-based)
InsertAt(s, i, c) == SliceTo(s, i) \o <<c>> \o SliceFrom(s, i)

\* the record arguments of unpack: what pack writes for a few envelopes,
\* and the same with a stray character put in or the end cut off
Texts ==
    LET good == {b2a_base64(<<_PACK_VERSION, f>> \o p) :
                    f \in {1, 3}, p \in PlainBlobs \cup {<<>>}}
                \cup {b2a_base64(<<_PACK_VERSION, 17>> \o p) : p \in GzipBlobs}
    IN  good
        \cup {InsertAt(t, i, c) : t \in good, i \in 0..MaxInsert, c \in Strays}
        \cup {SliceTo(t, Len(t) - k) : t \in good, k \in 1..3}
        \cup {t \o <<c>> : t \in good, c \in Strays \cup {65}}

\* ---------------------------------------------------------- state machine
VARIABLES
    now,       \* the clock, in seconds
    doc,       \* the document the caller packs
    compress,  \* the compress argument the caller packs it with
    record,    \* the byte string the caller holds, the argument of unpackb
    text,      \* the str the caller holds, the argument of unpack
    op,        \* the function called last
    result,    \* what that call returned or raised
    first      \* what the first call of packb returned or raised

vars == <<now, doc, compress, record, text, op, result, first>>

\* a caller with a document to pack
Init ==
    /\ now = 0
    /\ doc \in Docs
    /\ compress \in CompressArgs
    /\ record = <<>>
    /\ text = <<>>
    /\ op = "none"
    /\ result = NoCall
    /\ first = NoCall

\* a caller with a received record or text to unpack
InitDecode ==
    /\ now = 0
    /\ doc = PyNone
    /\ compress = "None"
    /\ \/ record \in Envelopes /\ text = <<>>
       \/ record = <<>> /\ text \in Texts
    /\ op = "none"
    /\ result = NoCall
    /\ first = NoCall

\* a second passes
Tick ==
    /\ now < MaxClock
    /\ now' = now + 1
    /\ UNCHANGED <<doc, compress, record, text, op, result, first>>

\* record = packb(doc, compress)
CallPackb ==
    /\ op' = "packb"
    /\ result' = packb(doc, compress, now)
    /\ record' = IF result'.kind = "bytes" THEN result'.bytes ELSE record
    /\ first' = IF first.kind = "none" THEN result' ELSE first
    /\ UNCHANGED <<now, doc, compress, text>>

\* text = pack(doc, compress)
CallPack ==
    /\ op' = "pack"
    /\ result' = pack(doc, compress, now)
    /\ text' = IF result'.kind = "str" THEN result'.bytes ELSE text
    /\ UNCHANGED <<now, doc, compress, record, first>>

\* unpackb(record)
CallUnpackb ==
    /\ op' = "unpackb"
    /\ result' = unpackb(record)
    /\ UNCHANGED <<now, doc, compress, record, text, first>>

\* unpack(text)
CallUnpack ==
    /\ op' = "unpack"
    /\ result' = unpack(text)
    /\ UNCHANGED <<now, doc, compress, record, text, first>>

Next == Tick \/ CallPackb \/ CallPack \/ CallUnpackb \/ CallUnpack

Spec == Init /\ [][Next]_vars

NextDecode == CallUnpackb \/ CallUnpack

SpecDecode == InitDecode /\ [][NextDecode]_vars

\* ----------------------------------------------------------------- claims
\* the parts of a record, read off arithmetically
IsVersion0(r) == Len(r) >= 2 /\ r[1] = 0
Bit0(f) == f % 2 = 1
Bit4(f) == (f \div 16) % 2 = 1
ReservedBits(f) == f - (f % 2) - 16 * ((f \div 16) % 2)
PayloadOf(r) == SubSeq(r, 3, Len(r))

CompressionErrors == {"gzip.BadGzipFile", "EOFError", "zlib.error"}
CodecErrors == {"ValueError: incomplete input", "msgpack.ExtraData", "msgpack.FormatError"}

\* the payload after the decompression the GZIP bit asks for
Unzipped(r) == IF Bit4(r[2]) THEN gzip_decompress(PayloadOf(r)) ELSE Inflated(PayloadOf(r))

\* C1: what unpackb returns for the bytes packb returned for a document is
\* that document, and what unpack returns for the text pack returned is
\* that document, with and without compression.
RoundTrip ==
    /\ (op = "unpackb" /\ record # <<>>) => (result.kind = "doc" /\ result.doc = doc)
    /\ (op = "unpack" /\ text # <<>>) => (result.kind = "doc" /\ result.doc = doc)

RoundTripWitness ==
    /\ op = "unpack"
    /\ Truthy(compress)
    /\ doc = PyList(<<PyInt(1), PyList(<<>>)>>)
    /\ text # <<>>
    /\ now > 0
    /\ result.kind = "doc"
    /\ result.doc = doc

\* C2: the bytes packb returns start with the version byte 0 and the flags
\* byte, 0x11 when compress is true and 0x01 when it is false or omitted;
\* without compression the bytes after them are the codec's encoding.
HeaderLayout ==
    (op = "packb" /\ result.kind = "bytes") =>
        /\ Len(result.bytes) >= 2
        /\ result.bytes[1] = 0
        /\ result.bytes[2] = IF compress = "True" THEN 17 ELSE 1
        /\ compress # "True" => SubSeq(result.bytes, 3, Len(result.bytes)) = msgpack_packb(doc).bytes

HeaderLayoutWitness ==
    /\ op = "packb"
    /\ compress = "True"
    /\ doc = PyInt(128)
    /\ result.kind = "bytes"
    /\ result.bytes[2] = 17

\* C3: unpackb of a record of length 0 or 1 raises the header error having
\* done nothing but the length check.
ShortRecordRejected ==
    (op = "unpackb" /\ Len(record) < 2) =>
        result = Raise("ValueError", "Invalid header block", <<"len">>)

ShortRecordWitness ==
    /\ op = "unpackb"
    /\ record = <<0>>
    /\ result.kind = "raise"

\* C4: unpackb of a record of length >= 2 whose first byte is not 0 raises
\* the version error whatever follows, before any decompression or decoding.
VersionRejected ==
    (op = "unpackb" /\ Len(record) >= 2 /\ record[1] # 0) =>
        result = Raise("ValueError", "Unsupported pack version",
                       <<"len", "struct.unpack", "version">>)

VersionRejectedWitness ==
    /\ op = "unpackb"
    /\ Len(record) > 2
    /\ record[1] = 255
    /\ record[2] = 17
    /\ result.kind = "raise"

\* C5 as claimed: a version-0 record whose flags have bit 0 unset always
\* raises 'Unsupported document format', whatever the other bits and payload.
MissingCodecBitAlwaysFormatError ==
    (op = "unpackb" /\ IsVersion0(record) /\ ~Bit0(record[2])) =>
        (result.kind = "raise" /\ result.exc = "ValueError"
            /\ result.msg = "Unsupported document format")

\* C5 as amended: such a record is always rejected: with the decompressor's
\* error when bit 4 is set and the payload does not decompress, and with
\* 'Unsupported document format' in every other case.
MissingCodecBitRejected ==
    (op = "unpackb" /\ IsVersion0(record) /\ ~Bit0(record[2])) =>
        /\ result.kind = "raise"
        /\ IF Bit4(record[2]) /\ ~gzip_decompress(PayloadOf(record)).ok
           THEN result.exc \in CompressionErrors
           ELSE result.exc = "ValueError" /\ result.msg = "Unsupported document format"

MissingCodecBitWitness ==
    /\ op = "unpackb"
    /\ IsVersion0(record)
    /\ record[2] = 146
    /\ Len(record) > 2
    /\ gzip_decompress(PayloadOf(record)).ok
    /\ result.msg = "Unsupported document format"

\* C6 as claimed: a version-0 record with a reserved flag bit set is
\* rejected.
ReservedBitsRejected ==
    (op = "unpackb" /\ IsVersion0(record) /\ ReservedBits(record[2]) # 0) =>
        result.kind = "raise"

\* C6 as amended: the flags byte of a version-0 record is refused only for
\* bit 0 being unset; with bit 0 set and a payload that decompresses (when
\* bit 4 asks for it) and decodes, the document is returned whatever the
\* reserved bits are.
ReservedBitsAccepted ==
    (op = "unpackb" /\ IsVersion0(record)) =>
        /\ result.msg = "Unsupported document format" => ~Bit0(record[2])
        /\ (Bit0(record[2]) /\ Unzipped(record).ok
                /\ msgpack_unpackb(Unzipped(record).data).ok) =>
              (result.kind = "doc"
                  /\ result.doc = msgpack_unpackb(Unzipped(record).data).doc)

ReservedBitsAcceptedWitness ==
    /\ op = "unpackb"
    /\ IsVersion0(record)
    /\ record[2] = 147
    /\ result.kind = "doc"
    /\ result.doc = PyList(<<PyInt(1)>>)

\* reserved-bit settings tried against a record
ReservedMasks == {0, 2, 128, 130, 238}

StepOrder(f) ==
    <<"len", "struct.unpack", "version">>
        \o (IF Bit4(f) THEN <<"gzip.decompress">> ELSE <<>>)
        \o <<"flags", "msgpack.unpackb">>

IsPrefix(s, t) == Len(s) <= Len(t) /\ s = SubSeq(t, 1, Len(s))

PackbDeterministic ==
    (op = "packb") => result = first

\* RFC 4648 text: groups of four alphabet characters, '=' only as the last
\* one or two characters
WellFormedBase64(t) ==
    /\ Len(t) % 4 = 0
    /\ \A i \in 1..Len(t) :
          \/ B64Value(t[i]) < 64
          \/ t[i] = 61 /\ i >= Len(t) - 1 /\ (i = Len(t) - 1 => t[Len(t)] = 61)

\* C10 as claimed: unpack raises for every text with a character outside
\* the Base64 alphabet or with invalid padding.
MalformedTextRejected ==
    (op = "unpack" /\ ~WellFormedBase64(text)) => result.kind = "raise"

====
